---- MODULE Spec2Model ----
(***************************************************************************)
(* Model of src/src/mac_local_whisper/server.py: the VoiceServer daemon.   *)
(* One main (command) thread runs serve() and, at interpreter exit, the    *)
(* atexit hook cleanup(); the capture subsystem runs _audio_callback in    *)
(* its own delivery context while a stream is running; termination        *)
(* signals are delivered to the main thread between two of its steps.      *)
(* Each main-thread action is one source line (or one call) of server.py.  *)
(* Strings are sequences of character codes, byte strings sequences of     *)
(* byte values.                                                            *)
(***************************************************************************)
EXTENDS Integers, Sequences, FiniteSets, TLC

(***************************************************************************)
(* Bounds of the model.                                                    *)
(***************************************************************************)
MaxConns == 3      \* client connections made during one run
MaxStreams == 3    \* sd.InputStream objects created during one run
MaxChunks == 2     \* callback invocations per stream

(***************************************************************************)
(* Program constants.                                                      *)
(***************************************************************************)
RECV_SIZE == 1024  \* conn.recv(1024)
BACKLOG == 1       \* self.sock.listen(1)

TOGGLE == <<116, 111, 103, 103, 108, 101>>                 \* "toggle"
UNKNOWN_PREFIX == <<117, 110, 107, 110, 111, 119, 110, 32,
                    99, 111, 109, 109, 97, 110, 100, 58, 32>>  \* "unknown command: "

\* Python's None, for each kind of value that may be None.
None == "None"                  \* an exception, an outcome
NoStream == 0                   \* self.stream is None
NoConn == 0
NoData == <<-1>>
NoResponse == [none |-> TRUE]
NoAudio == << <<0, 0>> >>
NoSegments == << <<-1>> >>

(***************************************************************************)
(* What a client may write on its connection (bytes).                      *)
(***************************************************************************)
Messages ==
  { TOGGLE,                          \* toggle
    <<32>> \o TOGGLE \o <<10>>,      \* " toggle\n"
    TOGGLE \o <<115>>,               \* toggles
    <<255>> }                        \* not UTF-8

(***************************************************************************)
(* What the transcription capability may return: per-segment texts.        *)
(***************************************************************************)
SegmentLists ==
  { <<>>,
    << <<32, 104, 105>> >>,                  \* [" hi"]
    << <<104, 105>>, <<32, 121, 111, 32>> >>, \* ["hi", " yo "]
    << <<104, 101, 108, 108, 111>>, <<119, 111, 114, 108, 100>> >> \* ["hello", "world"]
  }

----------------------------------------------------------------------------
(***************************************************************************)
(* Pure functions.                                                         *)
(***************************************************************************)

\* bytes.decode("utf-8"), for one- and two-byte sequences; every other lead
\* byte of the alphabet used here (0x80..0xC1, 0xF5..0xFF) is undecodable.
RECURSIVE decode(_)
decode(b) ==
  IF b = <<>> THEN [ok |-> TRUE, str |-> <<>>]
  ELSE IF b[1] < 128
    THEN LET r == decode(Tail(b))
         IN  [ok |-> r.ok, str |-> IF r.ok THEN <<b[1]>> \o r.str ELSE <<>>]
  ELSE IF b[1] >= 194 /\ b[1] <= 223 /\ Len(b) >= 2 /\ b[2] >= 128 /\ b[2] <= 191
    THEN LET r == decode(Tail(Tail(b)))
             c == (b[1] - 192) * 64 + (b[2] - 128)
         IN  [ok |-> r.ok, str |-> IF r.ok THEN <<c>> \o r.str ELSE <<>>]
  ELSE [ok |-> FALSE, str |-> <<>>]

\* str.isspace() on one character, for the code points below 256.
isspace(c) == c \in {9, 10, 11, 12, 13, 28, 29, 30, 31, 32, 133, 160}

RECURSIVE lstrip(_)
lstrip(s) == IF s # <<>> /\ isspace(s[1]) THEN lstrip(Tail(s)) ELSE s

RECURSIVE rstrip(_)
rstrip(s) ==
  IF s # <<>> /\ isspace(s[Len(s)]) THEN rstrip(SubSeq(s, 1, Len(s) - 1)) ELSE s

\* str.strip()
strip(s) == rstrip(lstrip(s))

\* " ".join(parts)
RECURSIVE join(_)
join(parts) ==
  IF parts = <<>> THEN <<>>
  ELSE IF Len(parts) = 1 THEN parts[1]
  ELSE parts[1] \o <<32>> \o join(Tail(parts))

\* conn.recv(1024): at most RECV_SIZE of the bytes the client wrote.
recv(raw) == IF Len(raw) <= RECV_SIZE THEN raw ELSE SubSeq(raw, 1, RECV_SIZE)

\* Variant of is_toggle: data.startswith("toggle")
is_toggle_prefix(d) == Len(d) >= Len(TOGGLE) /\ SubSeq(d, 1, Len(TOGGLE)) = TOGGLE

\* data == "toggle"
is_toggle(d) == d = TOGGLE

\* Variant of transcript: " ".join(seg.text for seg in segments).strip()
transcript_unstripped(segs) == strip(join(segs))

\* " ".join(seg.text.strip() for seg in segments).strip()
transcript(segs) == strip(join([i \in 1..Len(segs) |-> strip(segs[i])]))

----------------------------------------------------------------------------
VARIABLES
  pc,            \* position of the main thread
  recording,     \* self.recording
  audio_chunks,  \* self.audio_chunks: chunks <<stream, k>> in append order
  stream,        \* self.stream: NoStream or a stream id
  streams,       \* state of every InputStream created so far, by id
  delivered,     \* number of callback invocations made by each stream
  sock,          \* self.sock: None, "open", "listening" or "closed"
  socket_file,   \* what is at SOCKET_PATH: "none", "stale", "self" or "other"
  atexit,        \* cleanup registered with atexit
  handlers,      \* signals whose handler is lambda: sys.exit(0)
  connected,     \* connections made by clients so far (ids 1..connected)
  accepted,      \* connections accepted so far (ids 1..accepted)
  open_conns,    \* accepted connections not yet closed
  conn,          \* the connection being handled, or None
  data,          \* the decoded, trimmed command, or None
  response,      \* the response dict, or None
  sent,          \* responses written on the current connection
  err,           \* the exception caught for the current connection, or None
  exc,           \* the exception propagating out of the try block, or None
  audio,         \* the buffer np.concatenate built from audio_chunks
  segments,      \* the segment texts returned by model.transcribe
  err_send,      \* outcome of sending the error response: None, "sent", "failed"
  peer,          \* what the client of conn has done: "silent", "written", "closed"
  transcribe_calls, \* calls of model.transcribe made for the current connection
  was_recording, \* what handle_toggle read: None, "idle" or "recording"
  toggles,       \* toggle commands handled to completion
  others,        \* some other command was handled to completion
  sig_recording, \* a termination signal arrived while recording was True
  started,       \* serve() has run its first statement (lines 95-98)
  prev_err,      \* the exception caught for the previous connection, or None
  exit_by        \* why the process left serve(): None, "signal", "kill", "bind", "accept"

vars == <<pc, recording, audio_chunks, stream, streams, delivered, sock,
          socket_file, atexit, handlers, connected, accepted, open_conns,
          conn, data, response, sent, err, exc, audio, segments, err_send,
          peer, transcribe_calls, was_recording,
          toggles, others, sig_recording, started, prev_err, exit_by>>

session == <<recording, audio_chunks, stream, streams, delivered>>
endpoint == <<sock, socket_file, atexit, handlers>>
clients == <<connected, accepted, open_conns>>
call == <<peer, transcribe_calls, was_recording>>
request == <<conn, call, data, response, sent, err, exc, audio, segments, err_send>>
history == <<toggles, others, sig_recording, started, prev_err, exit_by>>

running == {s \in DOMAIN streams : streams[s] = "running"}

Init ==
  /\ pc = "serve_unlink"
  /\ recording = FALSE
  /\ audio_chunks = <<>>
  /\ stream = NoStream
  /\ streams = <<>>
  /\ delivered = <<>>
  /\ sock = None
  /\ socket_file \in {"none", "stale"}
  /\ atexit = FALSE
  /\ handlers = {}
  /\ connected = 0
  /\ accepted = 0
  /\ open_conns = {}
  /\ conn = NoConn
  /\ data = NoData
  /\ response = NoResponse
  /\ sent = <<>>
  /\ err = None
  /\ exc = None
  /\ audio = NoAudio
  /\ segments = NoSegments
  /\ err_send = None
  /\ peer = None
  /\ transcribe_calls = 0
  /\ was_recording = None
  /\ toggles = 0
  /\ others = FALSE
  /\ sig_recording = FALSE
  /\ started = FALSE
  /\ prev_err = None
  /\ exit_by = None

----------------------------------------------------------------------------
(***************************************************************************)
(* Control flow of exceptions in the main thread.                          *)
(***************************************************************************)
TryBlock == {"serve_recv", "serve_dispatch", "handle_toggle", "start_reset",
             "start_create", "start_start", "start_flag", "start_return",
             "stop_ifstream", "stop_stop", "stop_close", "stop_none",
             "stop_flag", "stop_empty", "stop_concat", "stop_transcribe",
             "stop_return", "serve_send"}
ExceptBlock == {"serve_except", "serve_send_error"}
Cleanup == {"cleanup_ifstream", "cleanup_stop", "cleanup_close",
            "cleanup_ifsock", "cleanup_sockclose", "cleanup_unlink"}

\* An exception leaves serve(): the interpreter finalizes and runs the
\* atexit hooks that were registered (line 105).
leave(cause) ==
  /\ pc' = IF atexit THEN "cleanup_ifstream" ELSE "exited"
  /\ exit_by' = IF exit_by = None THEN cause ELSE exit_by

\* Variant of raise: no except clause around the handling of a connection.
raise_uncaught(e) ==
  /\ pc' = IF atexit THEN "cleanup_ifstream" ELSE "exited"
  /\ err' = e

\* An Exception raised inside the try block of the accept loop (line 120).
raise(e) ==
  /\ pc' = "serve_except"
  /\ err' = e

----------------------------------------------------------------------------
(***************************************************************************)
(* serve(): startup, lines 95-109.                                         *)
(***************************************************************************)
serve_unlink ==
  /\ pc = "serve_unlink"
  /\ socket_file' = "none"
  /\ started' = TRUE
  /\ pc' = "serve_socket"
  /\ UNCHANGED <<session, sock, atexit, handlers, clients, request, toggles,
                 others, sig_recording, prev_err, exit_by>>

serve_socket ==
  /\ pc = "serve_socket"
  /\ sock' = "open"
  /\ pc' = "serve_bind"
  /\ UNCHANGED <<session, socket_file, atexit, handlers, clients, request, history>>

serve_bind ==
  /\ pc = "serve_bind"
  /\ \/ /\ socket_file' = "self"
        /\ pc' = "serve_listen"
        /\ UNCHANGED exit_by
     \/ /\ leave("bind")
        /\ UNCHANGED socket_file
  /\ UNCHANGED <<session, sock, atexit, handlers, clients, request,
                 toggles, others, sig_recording, prev_err, started>>

serve_listen ==
  /\ pc = "serve_listen"
  /\ sock' = "listening"
  /\ pc' = "serve_atexit"
  /\ UNCHANGED <<session, socket_file, atexit, handlers, clients, request, history>>

serve_atexit ==
  /\ pc = "serve_atexit"
  /\ atexit' = TRUE
  /\ pc' = "serve_sigint"
  /\ UNCHANGED <<session, sock, socket_file, handlers, clients, request, history>>

serve_sigint ==
  /\ pc = "serve_sigint"
  /\ handlers' = handlers \cup {"SIGINT"}
  /\ pc' = "serve_sigterm"
  /\ UNCHANGED <<session, sock, socket_file, atexit, clients, request, history>>

serve_sigterm ==
  /\ pc = "serve_sigterm"
  /\ handlers' = handlers \cup {"SIGTERM"}
  /\ pc' = "serve_accept"
  /\ UNCHANGED <<session, sock, socket_file, atexit, clients, request, history>>

(***************************************************************************)
(* A client connects to SOCKET_PATH; the kernel queues the connection      *)
(* until accept() takes it.                                                *)
(***************************************************************************)
client_connect ==
  /\ sock = "listening"
  /\ socket_file = "self"
  /\ pc # "exited"
  /\ connected < MaxConns
  /\ connected - accepted <= BACKLOG
  /\ connected' = connected + 1
  /\ UNCHANGED <<pc, session, endpoint, accepted, open_conns, request, history>>

(***************************************************************************)
(* The client of the accepted connection writes its bytes, or closes its   *)
(* end without writing; it may also do neither.  recv (line 114) returns   *)
(* only after one of the two.                                              *)
(***************************************************************************)
client_write ==
  /\ pc = "serve_recv"
  /\ peer = "silent"
  /\ peer' = "written"
  /\ UNCHANGED <<pc, session, endpoint, clients, conn, transcribe_calls,
                 was_recording, data, response, sent, err, exc, audio, segments,
                 err_send, history>>

client_close ==
  /\ pc = "serve_recv"
  /\ peer = "silent"
  /\ peer' = "closed"
  /\ UNCHANGED <<pc, session, endpoint, clients, conn, transcribe_calls,
                 was_recording, data, response, sent, err, exc, audio, segments,
                 err_send, history>>

(***************************************************************************)
(* serve(): the accept loop, lines 111-127.                                *)
(***************************************************************************)
serve_accept ==
  /\ pc = "serve_accept"
  /\ \/ /\ accepted < connected
        /\ accepted' = accepted + 1
        /\ conn' = accepted + 1
        /\ open_conns' = open_conns \cup {accepted + 1}
        /\ data' = NoData
        /\ response' = NoResponse
        /\ sent' = <<>>
        /\ err' = None
        /\ exc' = None
        /\ audio' = NoAudio
        /\ segments' = NoSegments
        /\ err_send' = None
        /\ peer' = "silent"
        /\ transcribe_calls' = 0
        /\ was_recording' = None
        /\ prev_err' = err
        /\ pc' = "serve_recv"
        /\ UNCHANGED exit_by
     \/ /\ leave("accept")
        /\ UNCHANGED <<accepted, open_conns, request, prev_err>>
  /\ UNCHANGED <<session, endpoint, connected, toggles, others, sig_recording,
                 started>>

serve_recv ==
  /\ pc = "serve_recv"
  /\ peer # "silent"
  /\ \/ \E raw \in (IF peer = "written" THEN Messages ELSE {<<>>}) :
          LET d == decode(recv(raw))
          IN  IF d.ok
              THEN /\ data' = strip(d.str)
                   /\ pc' = "serve_dispatch"
                   /\ UNCHANGED err
              ELSE /\ raise("decode")
                   /\ UNCHANGED data
     \/ /\ raise("recv")
        /\ UNCHANGED data
  /\ UNCHANGED <<session, endpoint, clients, conn, call, response, sent, exc,
                 audio, segments, err_send, history>>

serve_dispatch ==
  /\ pc = "serve_dispatch"
  /\ IF is_toggle(data)
     THEN /\ pc' = "handle_toggle"
          /\ UNCHANGED response
     ELSE /\ response' = [error |-> UNKNOWN_PREFIX \o data]
          /\ pc' = "serve_send"
  /\ UNCHANGED <<session, endpoint, clients, conn, call, data, sent, err, exc, audio,
                 segments, err_send, history>>

\* Variant of serve_send: line 119 left out.
serve_send_skip ==
  /\ pc = "serve_send"
  /\ pc' = "serve_finally"
  /\ UNCHANGED <<session, endpoint, clients, request, history>>

serve_send ==
  /\ pc = "serve_send"
  /\ \/ /\ sent' = Append(sent, response)
        /\ pc' = "serve_finally"
        /\ UNCHANGED err
     \/ /\ raise("send")
        /\ UNCHANGED sent
  /\ UNCHANGED <<session, endpoint, clients, conn, call, data, response, exc, audio,
                 segments, err_send, history>>

serve_except ==
  /\ pc = "serve_except"
  /\ pc' = "serve_send_error"
  /\ UNCHANGED <<session, endpoint, clients, request, history>>

serve_send_error ==
  /\ pc = "serve_send_error"
  /\ \/ /\ sent' = Append(sent, [error |-> err])
        /\ err_send' = "sent"
     \/ /\ err_send' = "failed"
        /\ UNCHANGED sent
  /\ pc' = "serve_finally"
  /\ UNCHANGED <<session, endpoint, clients, conn, call, data, response, err, exc,
                 audio, segments, history>>

\* Variant of serve_finally: conn.close() left out.
serve_finally_leak ==
  /\ pc = "serve_finally"
  /\ IF exc = None
     THEN /\ pc' = "serve_accept"
          /\ toggles' = IF is_toggle(data) THEN toggles + 1 ELSE toggles
          /\ others' = (others \/ ~is_toggle(data))
          /\ UNCHANGED exit_by
     ELSE /\ leave("signal")
          /\ UNCHANGED <<toggles, others>>
  /\ UNCHANGED <<session, endpoint, clients, request, sig_recording, prev_err, started>>

serve_finally ==
  /\ pc = "serve_finally"
  /\ open_conns' = open_conns \ {conn}
  /\ IF exc = None
     THEN /\ pc' = "serve_accept"
          /\ toggles' = IF is_toggle(data) THEN toggles + 1 ELSE toggles
          /\ others' = (others \/ ~is_toggle(data))
          /\ UNCHANGED exit_by
     ELSE /\ leave("signal")
          /\ UNCHANGED <<toggles, others>>
  /\ UNCHANGED <<session, endpoint, connected, accepted, request, sig_recording, prev_err,
                 started>>

----------------------------------------------------------------------------
(***************************************************************************)
(* handle_toggle(), lines 77-81.                                           *)
(***************************************************************************)
\* Variant of handle_toggle: the test of line 78 inverted.
handle_toggle_inverted ==
  /\ pc = "handle_toggle"
  /\ pc' = IF recording THEN "start_reset" ELSE "stop_ifstream"
  /\ was_recording' = IF recording THEN "recording" ELSE "idle"
  /\ UNCHANGED <<session, endpoint, clients, conn, peer, transcribe_calls, data,
                 response, sent, err, exc, audio, segments, err_send, history>>

handle_toggle ==
  /\ pc = "handle_toggle"
  /\ pc' = IF ~recording THEN "start_reset" ELSE "stop_ifstream"
  /\ was_recording' = IF recording THEN "recording" ELSE "idle"
  /\ UNCHANGED <<session, endpoint, clients, conn, peer, transcribe_calls, data,
                 response, sent, err, exc, audio, segments, err_send, history>>

(***************************************************************************)
(* start_recording(), lines 45-56.                                         *)
(***************************************************************************)
\* Variant of start_reset: line 46 left out.
start_reset_keep ==
  /\ pc = "start_reset"
  /\ pc' = "start_create"
  /\ UNCHANGED <<session, endpoint, clients, request, history>>

start_reset ==
  /\ pc = "start_reset"
  /\ audio_chunks' = <<>>
  /\ pc' = "start_create"
  /\ UNCHANGED <<recording, stream, streams, delivered, endpoint, clients,
                 request, history>>

start_create ==
  /\ pc = "start_create"
  /\ Len(streams) < MaxStreams
  /\ \/ /\ streams' = Append(streams, "created")
        /\ delivered' = Append(delivered, 0)
        /\ stream' = Len(streams) + 1
        /\ pc' = "start_start"
        /\ UNCHANGED err
     \/ /\ raise("create")
        /\ UNCHANGED <<stream, streams, delivered>>
  /\ UNCHANGED <<recording, audio_chunks, endpoint, clients, conn, call, data,
                 response, sent, exc, audio, segments, err_send, history>>

start_start ==
  /\ pc = "start_start"
  /\ \/ /\ streams' = [streams EXCEPT ![stream] = "running"]
        /\ pc' = "start_flag"
        /\ UNCHANGED err
     \/ /\ raise("start")
        /\ UNCHANGED streams
  /\ UNCHANGED <<recording, audio_chunks, stream, delivered, endpoint, clients,
                 conn, call, data, response, sent, exc, audio, segments, err_send,
                 history>>

\* Variant of start_flag: line 54 left out.
start_flag_omitted ==
  /\ pc = "start_flag"
  /\ pc' = "start_return"
  /\ UNCHANGED <<session, endpoint, clients, request, history>>

start_flag ==
  /\ pc = "start_flag"
  /\ recording' = TRUE
  /\ pc' = "start_return"
  /\ UNCHANGED <<audio_chunks, stream, streams, delivered, endpoint, clients,
                 request, history>>

start_return ==
  /\ pc = "start_return"
  /\ response' = [status |-> "recording"]
  /\ pc' = "serve_send"
  /\ UNCHANGED <<session, endpoint, clients, conn, call, data, sent, err, exc, audio,
                 segments, err_send, history>>

(***************************************************************************)
(* The capture stream: stop() and close() as the capability performs them. *)
(* A stop that fails may or may not have halted the delivery of frames.    *)
(***************************************************************************)
stopped(st) == IF st \in {"created", "running"} THEN "stopped" ELSE st

stream_stop_ok == streams' = [streams EXCEPT ![stream] = stopped(@)]
stream_stop_fail ==
  \/ UNCHANGED streams
  \/ streams' = [streams EXCEPT ![stream] = stopped(@)]
stream_close_ok == streams' = [streams EXCEPT ![stream] = "closed"]

(***************************************************************************)
(* stop_and_transcribe(), lines 58-75.                                     *)
(***************************************************************************)
\* Variant of stop_ifstream: the stream is never stopped (lines 59-62 skipped).
stop_ifstream_skip ==
  /\ pc = "stop_ifstream"
  /\ pc' = "stop_flag"
  /\ UNCHANGED <<session, endpoint, clients, request, history>>

stop_ifstream ==
  /\ pc = "stop_ifstream"
  /\ pc' = IF stream # NoStream THEN "stop_stop" ELSE "stop_flag"
  /\ UNCHANGED <<session, endpoint, clients, request, history>>

stop_stop ==
  /\ pc = "stop_stop"
  /\ \/ /\ stream_stop_ok
        /\ pc' = "stop_close"
        /\ UNCHANGED err
     \/ /\ stream_stop_fail
        /\ raise("stop")
  /\ UNCHANGED <<recording, audio_chunks, stream, delivered, endpoint, clients,
                 conn, call, data, response, sent, exc, audio, segments, err_send,
                 history>>

stop_close ==
  /\ pc = "stop_close"
  /\ \/ /\ stream_close_ok
        /\ pc' = "stop_none"
        /\ UNCHANGED err
     \/ /\ raise("close")
        /\ UNCHANGED streams
  /\ UNCHANGED <<recording, audio_chunks, stream, delivered, endpoint, clients,
                 conn, call, data, response, sent, exc, audio, segments, err_send,
                 history>>

stop_none ==
  /\ pc = "stop_none"
  /\ stream' = NoStream
  /\ pc' = "stop_flag"
  /\ UNCHANGED <<recording, audio_chunks, streams, delivered, endpoint, clients,
                 request, history>>

\* Variant of stop_flag: line 63 left out.
stop_flag_omitted ==
  /\ pc = "stop_flag"
  /\ pc' = "stop_empty"
  /\ UNCHANGED <<session, endpoint, clients, request, history>>

stop_flag ==
  /\ pc = "stop_flag"
  /\ recording' = FALSE
  /\ pc' = "stop_empty"
  /\ UNCHANGED <<audio_chunks, stream, streams, delivered, endpoint, clients,
                 request, history>>

\* Variant of stop_empty: the emptiness test of line 66 left out.
stop_empty_untested ==
  /\ pc = "stop_empty"
  /\ pc' = "stop_concat"
  /\ UNCHANGED <<session, endpoint, clients, request, history>>

stop_empty ==
  /\ pc = "stop_empty"
  /\ IF audio_chunks = <<>>
     THEN /\ response' = [status |-> "done", text |-> <<>>]
          /\ pc' = "serve_send"
     ELSE /\ pc' = "stop_concat"
          /\ UNCHANGED response
  /\ UNCHANGED <<session, endpoint, clients, conn, call, data, sent, err, exc, audio,
                 segments, err_send, history>>

stop_concat ==
  /\ pc = "stop_concat"
  /\ audio' = audio_chunks
  /\ pc' = "stop_transcribe"
  /\ UNCHANGED <<session, endpoint, clients, conn, call, data, response, sent, err,
                 exc, segments, err_send, history>>

stop_transcribe ==
  /\ pc = "stop_transcribe"
  /\ transcribe_calls' = transcribe_calls + 1
  /\ \/ /\ \E segs \in SegmentLists : segments' = segs
        /\ pc' = "stop_return"
        /\ UNCHANGED err
     \/ /\ raise("transcribe")
        /\ UNCHANGED segments
  /\ UNCHANGED <<session, endpoint, clients, conn, peer, was_recording, data,
                 response, sent, exc,
                 audio, err_send, history>>

stop_return ==
  /\ pc = "stop_return"
  /\ \/ /\ response' = [status |-> "done", text |-> transcript(segments)]
        /\ pc' = "serve_send"
        /\ UNCHANGED err
     \/ /\ raise("transcribe")
        /\ UNCHANGED response
  /\ UNCHANGED <<session, endpoint, clients, conn, call, data, sent, exc, audio,
                 segments, err_send, history>>

(***************************************************************************)
(* _audio_callback(), lines 38-43: runs in the delivery context of a       *)
(* running stream and appends one chunk.                                   *)
(***************************************************************************)
\* Variant of audio_callback: returns after logging when status is set.
audio_callback_drop ==
  /\ pc # "exited"
  /\ \E s \in running, status \in BOOLEAN :
       /\ delivered[s] < MaxChunks
       /\ delivered' = [delivered EXCEPT ![s] = @ + 1]
       /\ audio_chunks' = IF status THEN audio_chunks
                          ELSE Append(audio_chunks, <<s, delivered[s] + 1>>)
  /\ UNCHANGED <<pc, recording, stream, streams, endpoint, clients, request,
                 history>>

\* status, when set, is logged (lines 41-42); the chunk is appended either way.
audio_callback ==
  /\ pc # "exited"
  /\ \E s \in running, status \in BOOLEAN :
       /\ delivered[s] < MaxChunks
       /\ delivered' = [delivered EXCEPT ![s] = @ + 1]
       /\ audio_chunks' = Append(audio_chunks, <<s, delivered[s] + 1>>)
  /\ UNCHANGED <<pc, recording, stream, streams, endpoint, clients, request,
                 history>>

(***************************************************************************)
(* cleanup(), lines 83-92, run by atexit.  An exception raised by a step   *)
(* ends the hook; the interpreter then exits.                              *)
(***************************************************************************)
cleanup_ifstream ==
  /\ pc = "cleanup_ifstream"
  /\ pc' = IF stream # NoStream THEN "cleanup_stop" ELSE "cleanup_ifsock"
  /\ UNCHANGED <<session, endpoint, clients, request, history>>

cleanup_stop ==
  /\ pc = "cleanup_stop"
  /\ \/ /\ stream_stop_ok
        /\ pc' = "cleanup_close"
     \/ /\ stream_stop_fail
        /\ pc' = "exited"
  /\ UNCHANGED <<recording, audio_chunks, stream, delivered, endpoint, clients,
                 request, history>>

cleanup_close ==
  /\ pc = "cleanup_close"
  /\ \/ /\ stream_close_ok
        /\ pc' = "cleanup_ifsock"
     \/ /\ pc' = "exited"
        /\ UNCHANGED streams
  /\ UNCHANGED <<recording, audio_chunks, stream, delivered, endpoint, clients,
                 request, history>>

cleanup_ifsock ==
  /\ pc = "cleanup_ifsock"
  /\ pc' = IF sock # None THEN "cleanup_sockclose" ELSE "cleanup_unlink"
  /\ UNCHANGED <<session, endpoint, clients, request, history>>

cleanup_sockclose ==
  /\ pc = "cleanup_sockclose"
  /\ sock' = "closed"
  /\ pc' = "cleanup_unlink"
  /\ UNCHANGED <<session, socket_file, atexit, handlers, clients, request, history>>

cleanup_unlink ==
  /\ pc = "cleanup_unlink"
  /\ socket_file' = "none"
  /\ pc' = "exited"
  /\ UNCHANGED <<session, sock, atexit, handlers, clients, request, history>>

(***************************************************************************)
(* Another instance of the server starts while this one is serving: its    *)
(* serve() runs lines 95-101 on the same SOCKET_PATH, unlinking the file   *)
(* found there and binding its own.                                        *)
(***************************************************************************)
other_start ==
  /\ pc # "exited"
  /\ socket_file = "self"
  /\ socket_file' = "other"
  /\ UNCHANGED <<pc, session, sock, atexit, handlers, clients, request, history>>

(***************************************************************************)
(* A termination signal.  With the handler of lines 106-107 installed it   *)
(* raises SystemExit in the main thread at its current position; before    *)
(* that SIGINT raises KeyboardInterrupt there and SIGTERM ends the process *)
(* at once.                                                                *)
(***************************************************************************)
signal ==
  /\ pc # "exited"
  /\ \E sig \in {"SIGINT", "SIGTERM"} :
       IF sig = "SIGTERM" /\ sig \notin handlers
       THEN /\ pc' = "exited"
            /\ exit_by' = IF exit_by = None THEN "kill" ELSE exit_by
            /\ UNCHANGED exc
       ELSE IF pc \in TryBlock \cup ExceptBlock
       THEN /\ pc' = "serve_finally"
            /\ exc' = "SystemExit"
            /\ UNCHANGED exit_by
       ELSE IF pc \in Cleanup
       THEN /\ pc' = "exited"
            /\ UNCHANGED <<exc, exit_by>>
       ELSE /\ leave("signal")
            /\ UNCHANGED exc
  /\ sig_recording' = (sig_recording \/ recording)
  /\ UNCHANGED <<session, endpoint, clients, conn, call, data, response, sent, err,
                 audio, segments, err_send, toggles, others, started, prev_err>>

----------------------------------------------------------------------------
Next ==
  \/ serve_unlink \/ serve_socket \/ serve_bind \/ serve_listen
  \/ serve_atexit \/ serve_sigint \/ serve_sigterm
  \/ client_connect \/ client_write \/ client_close
  \/ serve_accept \/ serve_recv \/ serve_dispatch \/ serve_send
  \/ serve_except \/ serve_send_error \/ serve_finally
  \/ handle_toggle
  \/ start_reset \/ start_create \/ start_start \/ start_flag \/ start_return
  \/ stop_ifstream \/ stop_stop \/ stop_close \/ stop_none \/ stop_flag
  \/ stop_empty \/ stop_concat \/ stop_transcribe \/ stop_return
  \/ audio_callback
  \/ cleanup_ifstream \/ cleanup_stop \/ cleanup_close \/ cleanup_ifsock
  \/ cleanup_sockclose \/ cleanup_unlink
  \/ signal \/ other_start

Spec == Init /\ [][Next]_vars

\* The steps of the main thread: serve(), what it calls, and cleanup().
main ==
  \/ serve_unlink \/ serve_socket \/ serve_bind \/ serve_listen
  \/ serve_atexit \/ serve_sigint \/ serve_sigterm
  \/ serve_accept \/ serve_recv \/ serve_dispatch \/ serve_send
  \/ serve_except \/ serve_send_error \/ serve_finally
  \/ handle_toggle
  \/ start_reset \/ start_create \/ start_start \/ start_flag \/ start_return
  \/ stop_ifstream \/ stop_stop \/ stop_close \/ stop_none \/ stop_flag
  \/ stop_empty \/ stop_concat \/ stop_transcribe \/ stop_return
  \/ cleanup_ifstream \/ cleanup_stop \/ cleanup_close \/ cleanup_ifsock
  \/ cleanup_sockclose \/ cleanup_unlink

\* The main thread runs whenever it is not blocked in a call; every capture
\* and transcription call returns.  Clients and signals owe nothing.
FairSpec == Spec /\ WF_vars(main)

----------------------------------------------------------------------------
(***************************************************************************)
(* Properties.                                                             *)
(***************************************************************************)
Handling == (TryBlock \cup ExceptBlock \cup {"serve_finally"}) \ {"serve_recv"}
Exited == pc = "exited"
released == stream # NoStream => streams[stream] = "closed"

\* C1: starting from Idle, after N commands that are all "toggle" have been
\* handled the session is Recording if N is odd and Idle if N is even, also
\* when a start or a stop of the capture stream failed.
C1_ToggleParity ==
  (pc = "serve_accept" /\ ~others) => (recording <=> toggles % 2 = 1)

\* C2 (as claimed): in the state reached by the step that sets recording to
\* True, audio_chunks is empty.
C2_EmptyOnRecording ==
  [][(~recording /\ recording') => audio_chunks' = <<>>]_vars

\* C2 (amended): in the state reached by the step that sets recording to
\* True, audio_chunks holds exactly the chunks the stream just started has
\* delivered so far, in delivery order, and nothing of an earlier recording;
\* it is empty when the callback has not run yet.
C2_OnlyNewChunksOnRecording ==
  [][(~recording /\ recording') =>
       /\ stream' # NoStream
       /\ audio_chunks' = [k \in 1..delivered'[stream'] |-> <<stream', k>>]]_vars

\* C2 witness: a second recording has just been flagged, the callback of its
\* stream ran before the flag was set, and the first recording had chunks.
C2_Witness ==
  /\ pc = "start_return" /\ recording
  /\ stream = 2 /\ delivered[1] > 0 /\ delivered[2] > 0

\* C3: the main thread, while handling a decoded command that is not
\* "toggle", changes neither recording nor stream nor audio_chunks; the
\* response it is about to send is {error: "unknown command: <text>"}; and
\* closing the connection takes it back to accept.
C3_UnknownCommand ==
  /\ [][(pc \in Handling /\ data # NoData /\ data # TOGGLE /\ pc' # pc)
          => UNCHANGED <<recording, stream, audio_chunks>>]_vars
  /\ []((pc = "serve_send" /\ data # NoData /\ data # TOGGLE)
          => response = [error |-> UNKNOWN_PREFIX \o data])
  /\ [][(pc = "serve_finally" /\ exc = None /\ data # NoData /\ data # TOGGLE
          /\ open_conns' # open_conns) => pc' = "serve_accept"]_vars

\* C3 witness: an unknown command is being answered while a recording with
\* captured chunks is in progress.
C3_Witness ==
  /\ pc = "serve_send" /\ data = TOGGLE \o <<115>>
  /\ recording /\ audio_chunks # <<>>

\* C4: whenever the process has exited after startup had begun, no capture
\* stream is running, the stream handle held is released, no listening
\* socket is left open and the file it bound at SOCKET_PATH is gone.
C4_ExitReleasesEverything ==
  (Exited /\ started) => /\ running = {}
                         /\ released
                         /\ sock # "listening"
                         /\ socket_file # "self"

\* C5: when the error response for a toggle whose stream stop or close
\* failed is about to be sent, the session is Idle and holds no stream.
C5_FailedStopGoesIdle ==
  (pc = "serve_send_error" /\ err \in {"stop", "close"})
    => (recording = FALSE /\ stream = NoStream)

\* C6: if a termination signal arrived while recording was True, then once
\* the process has exited the capture stream has been stopped and the
\* socket file unlinked.
C6_SignalWhileRecording ==
  (Exited /\ sig_recording) => (running = {} /\ socket_file # "self")

\* C7: whenever the main thread is about to reset audio_chunks (line 46),
\* test it for emptiness (line 66) or concatenate it (line 70), no capture
\* stream is running.
C7_ReadsOnlyWhenStopped ==
  pc \in {"start_reset", "stop_empty", "stop_concat"} => running = {}

\* C7 witness: the chunks of a recording are about to be concatenated.
C7_Witness ==
  pc = "stop_concat" /\ Len(audio_chunks) = MaxChunks

\* C8: a failure while handling a connection never ends the accept loop
\* (the process leaves serve() only on a signal or on a failure of bind or
\* accept); once the server is back in accept after such a failure the
\* connection is closed and the error response was attempted, and it was
\* sent as the last message when the connection was writable.
C8_FailureIsPerConnection ==
  /\ (pc \in Cleanup \cup {"exited"})
       => exit_by \in {"signal", "kill", "bind", "accept"}
  /\ (pc = "serve_accept" /\ err # None)
       => /\ conn \notin open_conns
          /\ err_send \in {"sent", "failed"}
          /\ err_send = "sent" => sent[Len(sent)] = [error |-> err]

\* C8 witness: undecodable bytes were answered with the error response and
\* the server is back in accept with the next connection waiting.
C8_Witness ==
  /\ pc = "serve_accept" /\ err = "decode" /\ err_send = "sent"
  /\ accepted < connected

\* C9: at most one accepted connection is open at any time, it is the one
\* being handled, and none is open when the server is in accept.
C9_OneConnectionAtATime ==
  /\ Cardinality(open_conns) <= 1
  /\ open_conns \subseteq {conn}
  /\ pc = "serve_accept" => open_conns = {}

\* C9 witness: the second connection is being handled while a third one
\* waits in the backlog.
C9_Witness ==
  pc \in TryBlock /\ open_conns = {2} /\ connected = 3

\* C10: at most one capture stream is running in every reachable state.
C10_AtMostOneStream ==
  Cardinality(running) <= 1

\* C10 witness: a stop of the stream failed and left it running, and a
\* start had failed before.
C10_Witness ==
  /\ err = "stop" /\ Cardinality(running) = 1
  /\ \E s \in DOMAIN streams : streams[s] = "created" /\ s # stream

\* C11: every connection the server has accepted is eventually closed with
\* the server back in accept (or the process is exiting), whatever the
\* client does.
C11_ReturnsToAccept ==
  (pc = "serve_recv") ~> ((pc = "serve_accept" /\ open_conns = {}) \/ exit_by # None)

\* The stream of the latest start: while handle_toggle has read Recording,
\* it is the stream of the matching start.
matching == Len(streams)
Done(text) == [status |-> "done", text |-> text]

\* C12: during a toggle read in Recording whose matching stream delivered no
\* chunk, model.transcribe is not called and a status response is
\* {status: "done", text: ""}; the emptiness test leads straight to it.
C12_EmptyRecordingSkipsTranscriber ==
  /\ []((was_recording = "recording" /\ delivered[matching] = 0)
          => /\ transcribe_calls = 0
             /\ "status" \in DOMAIN response => response = Done(<<>>))
  /\ [][(pc = "stop_empty" /\ delivered[matching] = 0 /\ pc' # pc /\ exc' = None)
          => (pc' = "serve_send" /\ response' = Done(<<>>))]_vars

\* C12 witness: a recording on the second stream (the start of the first
\* one had failed) captured nothing and its stop is about to answer.
C12_Witness ==
  /\ pc = "serve_send" /\ was_recording = "recording"
  /\ matching = 2 /\ delivered[2] = 0
  /\ response = Done(<<>>) /\ transcribe_calls = 0

\* What "joined with single spaces" and "trimmed of surrounding whitespace"
\* mean, stated without the program's operators.
RECURSIVE Spaced(_)
Spaced(parts) ==
  IF parts = <<>> THEN <<>>
  ELSE IF Len(parts) = 1 THEN parts[1]
  ELSE Spaced(SubSeq(parts, 1, Len(parts) - 1)) \o <<32>> \o parts[Len(parts)]

Trimmed(s) ==
  LET ink == {i \in 1..Len(s) : ~isspace(s[i])}
  IN  IF ink = {} THEN <<>>
      ELSE SubSeq(s, CHOOSE i \in ink : \A j \in ink : i <= j,
                     CHOOSE i \in ink : \A j \in ink : i >= j)

Transcribed ==
  pc = "serve_send" /\ segments # NoSegments /\ "status" \in DOMAIN response

\* C13 (as claimed): the text of the done response is the segment texts
\* joined with single spaces, then trimmed.
C13_JoinThenTrim ==
  Transcribed => response.text = Trimmed(Spaced(segments))

\* C13 (amended): the text of the done response is the segment texts, each
\* trimmed, joined with single spaces, then trimmed.
C13_TrimJoinTrim ==
  Transcribed =>
    response.text = Trimmed(Spaced([i \in 1..Len(segments) |-> Trimmed(segments[i])]))

\* C13 witness: segments ["hi", " yo "] are about to be answered as "hi yo".
C13_Witness ==
  /\ Transcribed
  /\ segments = << <<104, 105>>, <<32, 121, 111, 32>> >>
  /\ response.text = <<104, 105, 32, 121, 111>>

\* C14: once a toggle that ended a recording has been handled and the
\* session is Idle, audio_chunks is empty.
C14_DiscardedAfterStop ==
  (pc = "serve_accept" /\ was_recording = "recording" /\ ~recording)
    => audio_chunks = <<>>

\* The main thread has written, or tried to write, an answer on conn.
responded == sent # <<>> \/ err = "send" \/ err_send # None

\* C15 (as claimed): once model.transcribe has been called for a command,
\* cleanup and exit happen only after that command's response was sent.
C15_ExitOnlyAfterResponse ==
  (transcribe_calls > 0 /\ pc \in Cleanup \cup {"exited"}) => responded

\* C15 (amended): once model.transcribe has been called for a command, only
\* a termination signal (SystemExit raised in the main thread) keeps the
\* main thread from writing that command's response or error response.
C15_OnlySignalCancels ==
  (transcribe_calls > 0 /\ ~responded
     /\ pc \notin {"stop_return", "serve_send", "serve_except", "serve_send_error"})
    => exc = "SystemExit"

\* C15 witness: a signal arrived while the segments were being produced;
\* cleanup runs and nothing was written on the connection.
C15_Witness ==
  /\ pc \in Cleanup /\ transcribe_calls = 1 /\ segments # NoSegments
  /\ response = NoResponse /\ sent = <<>> /\ exc = "SystemExit"

\* C16: when a status response is about to be written, {status: "recording"}
\* goes with a toggle read in Idle, recording True and a running stream
\* held; {status: "done"} goes with a toggle read in Recording, recording
\* False and no stream held.
C16_ResponseAgreesWithState ==
  (pc = "serve_send" /\ "status" \in DOMAIN response) =>
    IF response.status = "recording"
    THEN /\ was_recording = "idle"
         /\ recording /\ stream # NoStream /\ streams[stream] = "running"
    ELSE /\ response.status = "done"
         /\ was_recording = "recording"
         /\ ~recording /\ stream = NoStream /\ running = {}

\* C16 witness: a transcript is about to be sent as {status: "done"}.
C16_Witness ==
  /\ pc = "serve_send" /\ "status" \in DOMAIN response
  /\ response.status = "done" /\ response.text # <<>>

\* C17: after model.transcribe failed for a toggle, the session is Idle, no
\* stream is held or running, the matching stream is closed, the call was
\* made once, and the error response written is {error: <message>}; if the
\* next command is a toggle it is read in Idle, clears audio_chunks and
\* answers {status: "recording"}.
C17_TranscriberFailure ==
  /\ err = "transcribe" =>
       /\ ~recording /\ stream = NoStream /\ running = {}
       /\ streams[matching] = "closed"
       /\ transcribe_calls = 1
       /\ err_send = "sent" => sent = <<[error |-> "transcribe"]>>
  /\ prev_err = "transcribe" =>
       /\ was_recording # "recording"
       /\ pc = "start_create" => audio_chunks = <<>>
       /\ (pc = "serve_send" /\ "status" \in DOMAIN response)
            => response = [status |-> "recording"]

\* C17 witness: the toggle after a failed transcription is about to answer
\* {status: "recording"} for a second stream.
C17_Witness ==
  /\ prev_err = "transcribe" /\ pc = "serve_send"
  /\ response = [status |-> "recording"] /\ matching = 2 /\ streams[1] = "closed"

C19_FlagAgreesWithHandle ==
  pc = "serve_accept" =>
    /\ recording => (stream # NoStream /\ streams[stream] = "running")
    /\ ~recording => stream = NoStream

\* C20: once another instance has bound its own file at SOCKET_PATH, no step
\* of this instance removes that file: it stays there through this
\* instance's shutdown.
C20_LeavesOtherSocket ==
  [][socket_file = "other" => socket_file' = "other"]_vars

====
